---- MODULE Spec2Model ----
(***************************************************************************)
(* State-machine model of itk::HDF5ContainerImageIO                        *)
(* (src/src/itkHDF5ContainerImageIO.cxx): one image IO object, one         *)
(* container file on disk, and the HDF5 library calls the public entry     *)
(* points make on it.                                                      *)
(*                                                                         *)
(* A logical path is the sequence of its non-empty segments; a dataset     *)
(* address is the pair <<path, name>> with a relative link name.  Doubles  *)
(* are modelled by integers (every value used is stored and read exactly). *)
(***************************************************************************)
EXTENDS Integers, Sequences, FiniteSets, TLC

(***************************************************************************)
(* Bounds of the model.                                                    *)
(***************************************************************************)
\* largest dimensionality of the geometry round trips
MaxDims == 5
\* largest component count of a written image
MaxComponents == 3
\* datasets one run may create in the container
MaxDataSets == 1
\* the largest spacing a run may reach
MaxSpacing == 64

(***************************************************************************)
(* Storage types.  H5::DataType::operator== is H5Tequal: two atomic types  *)
(* are equal when class, size and signedness agree, so a storage type is   *)
(* the record of the three.  The width of long is fixed by the build's     *)
(* data model.                                                             *)
(***************************************************************************)
DataModels == {"LP64", "LLP64"}

SizeOfLong(dm) == IF dm = "LP64" THEN 8 ELSE 4

IntType(size, sign) == [class |-> "integer", size |-> size, sign |-> sign]

FloatType(size) == [class |-> "float", size |-> size, sign |-> TRUE]

NATIVE_UCHAR == IntType(1, FALSE)
NATIVE_CHAR == IntType(1, TRUE)
NATIVE_USHORT == IntType(2, FALSE)
NATIVE_SHORT == IntType(2, TRUE)
NATIVE_UINT == IntType(4, FALSE)
NATIVE_INT == IntType(4, TRUE)
NATIVE_ULONG(dm) == IntType(SizeOfLong(dm), FALSE)
NATIVE_LONG(dm) == IntType(SizeOfLong(dm), TRUE)
NATIVE_ULLONG == IntType(8, FALSE)
NATIVE_LLONG == IntType(8, TRUE)
NATIVE_FLOAT == FloatType(4)
NATIVE_DOUBLE == FloatType(8)

\* the twelve component kinds the type table supports
SupportedComponents ==
  {"UCHAR", "CHAR", "USHORT", "SHORT", "UINT", "INT", "ULONG", "LONG",
   "ULONGLONG", "LONGLONG", "FLOAT", "DOUBLE"}

\* IOComponentEnum
IOComponentEnum == SupportedComponents \cup {"LDOUBLE", "UNKNOWNCOMPONENTTYPE"}

\* what the type table answers where the code raises "unsupported ..."
Unsupported == "unsupported"

NoPredType == [class |-> "none", size |-> 0, sign |-> FALSE]

\* ComponentToPredType: the switch over IOComponentEnum
ComponentToPredType(cType, dm) ==
  CASE cType = "UCHAR" -> NATIVE_UCHAR
    [] cType = "CHAR" -> NATIVE_CHAR
    [] cType = "USHORT" -> NATIVE_USHORT
    [] cType = "SHORT" -> NATIVE_SHORT
    [] cType = "UINT" -> NATIVE_UINT
    [] cType = "INT" -> NATIVE_INT
    [] cType = "ULONG" -> NATIVE_ULONG(dm)
    [] cType = "LONG" -> NATIVE_LONG(dm)
    [] cType = "ULONGLONG" -> NATIVE_ULLONG
    [] cType = "LONGLONG" -> NATIVE_LLONG
    [] cType = "FLOAT" -> NATIVE_FLOAT
    [] cType = "DOUBLE" -> NATIVE_DOUBLE
    [] OTHER -> NoPredType

\* PredTypeToComponentType: the if/else-if chain, first equal type wins
PredTypeToComponentType(type, dm) ==
  IF type = NATIVE_UCHAR THEN "UCHAR"
  ELSE IF type = NATIVE_CHAR THEN "CHAR"
  ELSE IF type = NATIVE_USHORT THEN "USHORT"
  ELSE IF type = NATIVE_SHORT THEN "SHORT"
  ELSE IF type = NATIVE_UINT THEN "UINT"
  ELSE IF type = NATIVE_INT THEN "INT"
  ELSE IF type = NATIVE_ULONG(dm) THEN "ULONG"
  ELSE IF type = NATIVE_LONG(dm) THEN "LONG"
  ELSE IF type = NATIVE_LLONG THEN "LONGLONG"
  ELSE IF type = NATIVE_ULLONG THEN "ULONGLONG"
  ELSE IF type = NATIVE_FLOAT THEN "FLOAT"
  ELSE IF type = NATIVE_DOUBLE THEN "DOUBLE"
  ELSE Unsupported

(***************************************************************************)
(* Paths, names and geometries.                                            *)
(***************************************************************************)
RootPath == <<>>

\* the logical paths the object is configured with
Paths == {RootPath, <<"a">>}

\* the dataset names the object is configured with
DataSetNames == {"data", "img"}

MetaDataName == "ITKMetaData"

\* the non-empty prefixes of a path, i.e. the groups that lead to it
Prefixes(path) == {SubSeq(path, 1, k) : k \in 1..Len(path)}

ZeroVector(n) == [i \in 1..n |-> 0]

OneVector(n) == [i \in 1..n |-> 1]

IdentityMatrix(n) == [i \in 1..n |-> [j \in 1..n |-> IF i = j THEN 1 ELSE 0]]

\* An image description as the host hands it to the writer: n axes, every
\* axis with its own size, origin and spacing, a direction matrix that is
\* not symmetric (row i, column j holds n*(i-1)+j+v), c components.
ImageInfo(n, c, v, cType) ==
  [inferred |-> FALSE,
   dict |-> IF c > 1
              THEN <<>>
              ELSE [count |-> [type |-> "long", array |-> FALSE, value |-> 5 + v]],
   dims |-> n,
   sizes |-> [i \in 1..n |-> i + 1 + v],
   origin |-> [i \in 1..n |-> 10 * i + v],
   spacing |-> [i \in 1..n |-> i + 2 + v],
   direction |-> [i \in 1..n |-> [j \in 1..n |-> n * (i - 1) + j + v]],
   components |-> c,
   componentType |-> cType]

(***************************************************************************)
(* Attribute schema codec.  A stored attribute is its dataspace shape and  *)
(* its flat buffer.                                                        *)
(***************************************************************************)
\* WriteVectorDataSetAttrib: a 1-D space of vec.size() elements
WriteVectorDataSetAttrib(vec) == [shape |-> <<Len(vec)>>, buf |-> vec]

\* ReadVectorDataSetAttrib: vec.resize(dim[0]) and a read of the buffer
ReadVectorDataSetAttrib(attr) == [i \in 1..attr.shape[1] |-> attr.buf[i]]

\* WriteDirectionsDataSetAttributes: dim[1] rows of dim[0] columns, the
\* buffer filled row after row, the space created as (dim[0], dim[1])
WriteDirectionsDataSetAttributes(dir) ==
  LET dim1 == Len(dir)
      dim0 == Len(dir[1])
  IN [shape |-> <<dim0, dim1>>,
      buf |-> [k \in 1..(dim0 * dim1) |->
                 dir[((k - 1) \div dim0) + 1][((k - 1) % dim0) + 1]]]

\* the buffer read column after column
ReadDirectionsDataSetAttributes_Transposed(attr) ==
  LET dim0 == attr.shape[1]
      dim1 == attr.shape[2]
  IN [i \in 1..dim1 |-> [j \in 1..dim0 |-> attr.buf[(j - 1) * dim1 + i]]]

\* ReadDirectionsDataSetAttributes: rval[i][j] = buf[k++], i < dim[1], j < dim[0]
ReadDirectionsDataSetAttributes(attr) ==
  LET dim0 == attr.shape[1]
      dim1 == attr.shape[2]
  IN [i \in 1..dim1 |-> [j \in 1..dim0 |-> attr.buf[(i - 1) * dim0 + j]]]

\* WriteDataSetAttributes: the four geometry attributes of a new dataset
WriteDataSetAttributes(img) ==
  [Origin |-> WriteVectorDataSetAttrib(img.origin),
   Spacing |-> WriteVectorDataSetAttrib(img.spacing),
   Dimension |-> WriteVectorDataSetAttrib(img.sizes),
   Directions |-> WriteDirectionsDataSetAttributes(img.direction)]

\* The dataspace WriteImageInformation creates: dims[j] = m_Dimensions[i]
\* with j running down from numDims-1, then the component count as last axis
ImageSpace(img) ==
  [j \in 1..(img.dims + (IF img.components > 1 THEN 1 ELSE 0)) |->
     IF j <= img.dims THEN img.sizes[img.dims + 1 - j] ELSE img.components]

\* origin, spacing and direction reset on every call
SetNumberOfDimensions_AlwaysResets(img, dim) ==
  [img EXCEPT
     !.dims = dim,
     !.sizes = [i \in 1..dim |-> IF i <= Len(img.sizes) THEN img.sizes[i] ELSE 0],
     !.origin = ZeroVector(dim),
     !.spacing = OneVector(dim),
     !.direction = IdentityMatrix(dim)]

\* ImageIOBase::SetNumberOfDimensions as ReadDataSetAttributes uses it: a
\* change of dimensionality resizes the geometry vectors and resets origin,
\* spacing and direction to their defaults
SetNumberOfDimensions(img, dim) ==
  IF dim = img.dims
    THEN img
    ELSE [img EXCEPT
            !.dims = dim,
            !.sizes = [i \in 1..dim |-> IF i <= Len(img.sizes) THEN img.sizes[i] ELSE 0],
            !.origin = ZeroVector(dim),
            !.spacing = OneVector(dim),
            !.direction = IdentityMatrix(dim)]

\* the inferred sizes taken in storage order
ReadDimensions_NotReversed(ds, img) ==
  LET nInferredDims == Len(ds.dims)
  IN IF "Dimension" \in DOMAIN ds.attrs
       THEN LET sizes == ReadVectorDataSetAttrib(ds.attrs.Dimension)
                nDims == Len(sizes)
                set == SetNumberOfDimensions(
                         [img EXCEPT !.inferred = FALSE, !.sizes = sizes], nDims)
            IN IF nInferredDims > nDims
                 THEN [set EXCEPT !.components = ds.dims[nDims]]
                 ELSE set
       ELSE LET set == SetNumberOfDimensions(
                         [img EXCEPT !.inferred = TRUE], nInferredDims)
            IN [set EXCEPT !.components = 1, !.sizes = ds.dims]

\* ReadDataSetAttributes, the part that decides dimensionality, sizes and
\* component count
ReadDimensions(ds, img) ==
  LET nInferredDims == Len(ds.dims)
  IN IF "Dimension" \in DOMAIN ds.attrs
       THEN LET sizes == ReadVectorDataSetAttrib(ds.attrs.Dimension)
                nDims == Len(sizes)
                set == SetNumberOfDimensions(
                         [img EXCEPT !.inferred = FALSE, !.sizes = sizes], nDims)
            IN IF nInferredDims > nDims
                 THEN [set EXCEPT !.components = ds.dims[nDims]]
                 ELSE set
       ELSE LET set == SetNumberOfDimensions(
                         [img EXCEPT !.inferred = TRUE], nInferredDims)
            IN [set EXCEPT
                  !.components = 1,
                  !.sizes = [i \in 1..nInferredDims |-> ds.dims[nInferredDims + 1 - i]]]

\* SizeValueType is an unsigned word and arithmetic on it wraps around.  The
\* model narrows the word to 16 bits; the wrap-around is that of the 64.
SizeValueModulus == 65536

\* the difference of two unsigned words
UnsignedMinus(a, b) == (a - b + SizeValueModulus) % SizeValueModulus

\* ReadDataSetAttributes, the stride override: spacing is scaled on every
\* axis, and without a size override the size of every axis with a stride
\* above one becomes GetDimensions(i) / stride - offset
ApplyStride(img, ov) ==
  LET nDims == img.dims
      scaled == [i \in DOMAIN img.spacing |->
                   IF i <= nDims THEN img.spacing[i] * ov.stride[i]
                                 ELSE img.spacing[i]]
      Offset(i) == IF ov.useOffset THEN ov.offset[i] ELSE 0
      resized == [i \in DOMAIN img.sizes |->
                    IF i <= nDims /\ ov.stride[i] > 1
                      THEN UnsignedMinus(img.sizes[i] \div ov.stride[i], Offset(i))
                      ELSE img.sizes[i]]
  IN [img EXCEPT !.spacing = scaled,
                 !.sizes = IF ov.useSize THEN img.sizes ELSE resized]

\* the override left out
OverrideSize_Ignored(img, ov) == img

\* ReadDataSetAttributes, the size override: SetDimensions(i, m_DataSetSize[i])
OverrideSize(img, ov) == IF ov.useSize THEN [img EXCEPT !.sizes = ov.size] ELSE img

\* ReadDataSetAttributes: component type, dimensions, the size override, each
\* of Directions, Origin and Spacing when the attribute exists, then the
\* offset and stride overrides.  An override vector of the wrong length ends
\* the call with what has been set so far.
ReadDataSetAttributes(ds, img, dm, ov) ==
  LET typed == [img EXCEPT !.componentType = PredTypeToComponentType(ds.type, dm)]
      Geometry(forced) ==
        [forced EXCEPT
           !.direction = IF "Directions" \in DOMAIN ds.attrs
                           THEN ReadDirectionsDataSetAttributes(ds.attrs.Directions)
                           ELSE @,
           !.origin = IF "Origin" \in DOMAIN ds.attrs
                        THEN ReadVectorDataSetAttrib(ds.attrs.Origin)
                        ELSE @,
           !.spacing = IF "Spacing" \in DOMAIN ds.attrs
                         THEN ReadVectorDataSetAttrib(ds.attrs.Spacing)
                         ELSE @]
      Checked(sized, spc) ==
        IF ov.useSize /\ Len(ov.size) # sized.dims
          THEN [result |-> "itk:DimensionMismatch", image |-> sized]
        ELSE IF ov.useOffset /\ Len(ov.offset) # sized.dims
          THEN [result |-> "itk:DimensionMismatch", image |-> spc]
        ELSE IF ~ov.useStride
          THEN [result |-> "ok", image |-> spc]
        ELSE IF Len(ov.stride) # sized.dims
          THEN [result |-> "itk:DimensionMismatch", image |-> spc]
        ELSE [result |-> "ok", image |-> ApplyStride(spc, ov)]
      Sized(sized) == Checked(sized, Geometry(OverrideSize(sized, ov)))
  IN Sized(ReadDimensions(ds, typed))

(***************************************************************************)
(* Metadata codec.  A dictionary entry is the C++ type of the held value,  *)
(* whether it is an itk::Array of that type, and the value; a stored       *)
(* metadata object is a storage type, its tag attributes, its shape and    *)
(* its buffer.  Integer widths are scaled: a byte of the build is ByteBits *)
(* bits of the model, so that every range fits the checker's integers.     *)
(* Byte order is little-endian (STD_I64LE is the native 8-byte integer).   *)
(***************************************************************************)
\* bits of the model standing for one byte of the build
ByteBits == 2

Bits(size) == ByteBits * size

\* the value of an unsigned integer of the size holding the bits of v
ToUnsigned(v, size) == v % (2 ^ Bits(size))

\* the value of a signed integer of the size holding the bits of v
ToSigned(v, size) ==
  LET m == ToUnsigned(v, size)
  IN IF m >= 2 ^ (Bits(size) - 1) THEN m - 2 ^ Bits(size) ELSE m

\* hbool_t is the C99 bool: one unsigned byte
NATIVE_HBOOL == IntType(1, FALSE)

STD_I64LE == IntType(8, TRUE)

STD_U64LE == IntType(8, FALSE)

\* H5::StrType(H5::PredType::C_S1, H5T_VARIABLE)
StrType == [class |-> "string", size |-> 0, sign |-> FALSE]

\* the types WriteImageMetaData tries WriteMeta with, in its order
ScalarWriters ==
  <<"bool", "char", "unsigned char", "short", "unsigned short", "int",
    "unsigned int", "long", "unsigned long", "long long", "unsigned long long",
    "float", "double">>

\* the types WriteImageMetaData tries WriteMetaArray with, in its order
ArrayWriters ==
  <<"char", "unsigned char", "short", "unsigned short", "int", "unsigned int",
    "long", "unsigned long", "float", "double">>

Range(seq) == {seq[i] : i \in DOMAIN seq}

\* GetType<TScalar>()
GetType(type, dm) ==
  CASE type = "float" -> NATIVE_FLOAT
    [] type = "double" -> NATIVE_DOUBLE
    [] type = "char" -> NATIVE_CHAR
    [] type = "unsigned char" -> NATIVE_UCHAR
    [] type = "short" -> NATIVE_SHORT
    [] type = "unsigned short" -> NATIVE_USHORT
    [] type = "int" -> NATIVE_INT
    [] type = "unsigned int" -> NATIVE_UINT
    [] type = "long" -> NATIVE_LONG(dm)
    [] type = "unsigned long" -> NATIVE_ULONG(dm)
    [] type = "long long" -> NATIVE_LLONG
    [] type = "unsigned long long" -> NATIVE_ULLONG

\* no overload attaches a tag
WriteScalar_Untagged(entry, dm) ==
  [type |-> NATIVE_INT, tags |-> {}, shape |-> <<1>>, buf |-> <<entry.value>>]

\* WriteScalar, by the overload the entry's type selects: bool, long and
\* unsigned long go through static_cast<int>, the 64-bit types are written
\* as they are, every other type by the template
WriteScalar(entry, dm) ==
  CASE entry.type = "bool" ->
         [type |-> NATIVE_HBOOL, tags |-> {"isBool"}, shape |-> <<1>>,
          buf |-> <<ToUnsigned(ToSigned(entry.value, 4), 1)>>]
    [] entry.type = "long" ->
         [type |-> NATIVE_INT, tags |-> {"isLong"}, shape |-> <<1>>,
          buf |-> <<ToSigned(entry.value, 4)>>]
    [] entry.type = "unsigned long" ->
         [type |-> NATIVE_UINT, tags |-> {"isUnsignedLong"}, shape |-> <<1>>,
          buf |-> <<ToUnsigned(ToSigned(entry.value, 4), 4)>>]
    [] entry.type = "long long" ->
         [type |-> STD_I64LE, tags |-> {"isLLong"}, shape |-> <<1>>,
          buf |-> <<entry.value>>]
    [] entry.type = "unsigned long long" ->
         [type |-> STD_U64LE, tags |-> {"isULLong"}, shape |-> <<1>>,
          buf |-> <<entry.value>>]
    [] OTHER ->
         [type |-> GetType(entry.type, dm), tags |-> {}, shape |-> <<1>>,
          buf |-> <<entry.value>>]

\* WriteVector: a 1-D dataset of vec.size() elements
WriteVector(entry, dm) ==
  [type |-> GetType(entry.type, dm), tags |-> {}, shape |-> <<Len(entry.value)>>,
   buf |-> entry.value]

\* WriteString: one variable-length string
WriteString(entry) ==
  [type |-> StrType, tags |-> {}, shape |-> <<1>>, buf |-> <<entry.value>>]

\* no writer took the entry
NoObject == [none |-> TRUE]

\* the array writers left out
WriteMeta_ScalarsOnly(entry, dm) ==
  IF ~entry.array /\ entry.type \in Range(ScalarWriters)
    THEN WriteScalar(entry, dm)
  ELSE IF ~entry.array /\ entry.type = "std::string"
    THEN WriteString(entry)
  ELSE NoObject

\* WriteImageMetaData, one entry: the first writer whose type matches
WriteMeta(entry, dm) ==
  IF ~entry.array /\ entry.type \in Range(ScalarWriters)
    THEN WriteScalar(entry, dm)
  ELSE IF entry.array /\ entry.type \in Range(ArrayWriters)
    THEN WriteVector(entry, dm)
  ELSE IF ~entry.array /\ entry.type = "std::string"
    THEN WriteString(entry)
  ELSE NoObject

\* WriteImageMetaData: one stored object per entry a writer takes
WriteImageMetaData(metaDict, dm) ==
  [k \in {x \in DOMAIN metaDict : WriteMeta(metaDict[x], dm) # NoObject} |->
     WriteMeta(metaDict[k], dm)]

\* StoreMetaData: a scalar when the object has one element, else an itk::Array
StoreMetaData(type, obj) ==
  IF obj.shape[1] = 1
    THEN [type |-> type, array |-> FALSE, value |-> obj.buf[1]]
    ELSE [type |-> type, array |-> TRUE, value |-> obj.buf]

\* ReadScalar<TScalar> into an entry of the type
Scalar(type, obj) == [type |-> type, array |-> FALSE, value |-> obj.buf[1]]

\* the bool read through ReadScalar<int>: val = tmpVal != 0
Bool(obj) ==
  [type |-> "bool", array |-> FALSE, value |-> IF obj.buf[1] # 0 THEN 1 ELSE 0]

\* the object restores no entry
NoEntry == [none |-> TRUE]

\* ReadImageMetaData, one child object: the chain of storage type
\* comparisons in the code's order, the tags inside each branch.  Every
\* tagged object this writer stores has one element.
RestoreMetaData(obj, dm) ==
  IF Len(obj.shape) # 1 THEN NoEntry
  ELSE IF obj.type = NATIVE_INT
    THEN IF "isBool" \in obj.tags THEN Bool(obj)
         ELSE IF "isLong" \in obj.tags THEN Scalar("long", obj)
         ELSE IF "isUnsignedLong" \in obj.tags THEN Scalar("unsigned long", obj)
         ELSE StoreMetaData("int", obj)
  ELSE IF obj.type = NATIVE_CHAR THEN StoreMetaData("char", obj)
  ELSE IF obj.type = NATIVE_UCHAR
    THEN IF "isBool" \in obj.tags THEN Bool(obj)
         ELSE StoreMetaData("unsigned char", obj)
  ELSE IF obj.type = NATIVE_SHORT THEN StoreMetaData("short", obj)
  ELSE IF obj.type = NATIVE_USHORT THEN StoreMetaData("unsigned short", obj)
  ELSE IF obj.type = NATIVE_UINT
    THEN IF "isUnsignedLong" \in obj.tags THEN Scalar("unsigned long", obj)
         ELSE StoreMetaData("unsigned int", obj)
  ELSE IF obj.type = NATIVE_LONG(dm)
    THEN IF "isLLong" \in obj.tags THEN Scalar("long long", obj)
         ELSE StoreMetaData("long", obj)
  ELSE IF obj.type = NATIVE_ULONG(dm)
    THEN IF "isULLong" \in obj.tags THEN Scalar("unsigned long long", obj)
         ELSE StoreMetaData("unsigned long", obj)
  ELSE IF obj.type = NATIVE_LLONG THEN StoreMetaData("long long", obj)
  ELSE IF obj.type = NATIVE_ULLONG THEN StoreMetaData("unsigned long long", obj)
  ELSE IF obj.type = NATIVE_FLOAT THEN StoreMetaData("float", obj)
  ELSE IF obj.type = NATIVE_DOUBLE THEN StoreMetaData("double", obj)
  ELSE IF obj.type = StrType THEN Scalar("std::string", obj)
  ELSE NoEntry

\* ReadImageMetaData: every child of the metadata group that restores an
\* entry, keyed by its name
ReadImageMetaData(stored, dm) ==
  [k \in {x \in DOMAIN stored : RestoreMetaData(stored[x], dm) # NoEntry} |->
     RestoreMetaData(stored[k], dm)]

EmptyDictionary == <<>>


(***************************************************************************)
(* State.                                                                  *)
(***************************************************************************)
VARIABLES
  dataModel,                 \* the build's data model (width of long)
  fileKind,                  \* what is on disk at the file name
  groups,                    \* the container's groups other than the root
  datasets,                  \* address -> stored dataset
  metaGroups,                \* path -> objects of the ITKMetaData group there
  writtenInfo,               \* address -> image description of the writer (history)
  m_H5File,                  \* "null", or the mode the held handle was opened in
  openFiles,                 \* H5::H5File objects that are alive
  m_ImageInformationWritten,
  m_Path,
  m_DataSetName,
  m_Overwrite,
  m_UseMetaData,
  m_UseInferredDimensions,
  m_NumberOfDimensions,
  m_Dimensions,
  m_Origin,
  m_Spacing,
  m_Direction,
  m_NumberOfComponents,
  m_ComponentType,
  m_MetaDataDictionary,
  m_UseDataSetOffset,
  m_DataSetOffset,
  m_UseDataSetSize,
  m_DataSetSize,
  m_UseDataSetStride,
  m_DataSetStride,
  m_IORegion,                \* the region the host asked for: index and size
  selection,                 \* the hyperslab the last call selected, if any
  lastCall,                  \* the entry point called last
  lastResult,                \* how it returned
  h5calls                    \* the library calls it made that open, close or create

diskVars == <<fileKind, groups, datasets, metaGroups, writtenInfo>>

handleVars == <<m_H5File, openFiles>>

configVars == <<m_Path, m_DataSetName, m_Overwrite, m_UseMetaData>>

imageVars ==
  <<m_UseInferredDimensions, m_NumberOfDimensions, m_Dimensions, m_Origin,
    m_Spacing, m_Direction, m_NumberOfComponents, m_ComponentType,
    m_MetaDataDictionary>>

overrideVars ==
  <<m_UseDataSetOffset, m_DataSetOffset, m_UseDataSetSize, m_DataSetSize,
    m_UseDataSetStride, m_DataSetStride>>

vars ==
  <<dataModel, diskVars, handleVars, m_ImageInformationWritten, configVars,
    imageVars, overrideVars, m_IORegion, selection, lastCall, lastResult,
    h5calls>>

\* what H5Fis_hdf5 and the H5File constructor make of the file:
\*   "absent"   no file
\*   "empty"    a zero-byte file (the probe cannot tell)
\*   "other"    a valid file of another format (the probe answers no)
\*   "damaged"  a file with the HDF5 signature that cannot be opened
\*   "hdf5"     a container
FileKinds == {"absent", "empty", "other", "damaged", "hdf5"}

\* the object's image description as one record
Image ==
  [inferred |-> m_UseInferredDimensions,
   dims |-> m_NumberOfDimensions,
   sizes |-> m_Dimensions,
   origin |-> m_Origin,
   spacing |-> m_Spacing,
   direction |-> m_Direction,
   components |-> m_NumberOfComponents,
   componentType |-> m_ComponentType,
   dict |-> m_MetaDataDictionary]

\* the size override taken from the offset override's flag and vector
Overrides_SizeFollowsOffset ==
  [useOffset |-> m_UseDataSetOffset, offset |-> m_DataSetOffset,
   useSize |-> m_UseDataSetOffset, size |-> m_DataSetOffset,
   useStride |-> m_UseDataSetStride, stride |-> m_DataSetStride]

\* the override vectors and their enable flags as one record
Overrides ==
  [useOffset |-> m_UseDataSetOffset, offset |-> m_DataSetOffset,
   useSize |-> m_UseDataSetSize, size |-> m_DataSetSize,
   useStride |-> m_UseDataSetStride, stride |-> m_DataSetStride]

SetImage(img) ==
  /\ m_UseInferredDimensions' = img.inferred
  /\ m_NumberOfDimensions' = img.dims
  /\ m_Dimensions' = img.sizes
  /\ m_Origin' = img.origin
  /\ m_Spacing' = img.spacing
  /\ m_Direction' = img.direction
  /\ m_NumberOfComponents' = img.components
  /\ m_ComponentType' = img.componentType
  /\ m_MetaDataDictionary' = img.dict

\* a dataset some other program stored: no geometry attributes
ForeignDataSet ==
  [type |-> NATIVE_FLOAT, dims |-> <<3, 2>>, attrs |-> <<>>, data |-> TRUE]

\* no hyperslab has been selected by the call
NoSelection == [rank |-> 0]

\* ImageIORegion as ImageIOBase constructs it: two axes, index and size zero
DefaultRegion == [index |-> <<0, 0>>, size |-> <<0, 0>>]

\* datasets of one, two and three axes stored without geometry attributes
ForeignDataSets ==
  {ForeignDataSet,
   [ForeignDataSet EXCEPT !.dims = <<4>>],
   [ForeignDataSet EXCEPT !.dims = <<2, 3, 4>>]}

\* the object holds the image description
HoldsImage(img) ==
  /\ m_UseInferredDimensions = img.inferred
  /\ m_NumberOfDimensions = img.dims
  /\ m_Dimensions = img.sizes
  /\ m_Origin = img.origin
  /\ m_Spacing = img.spacing
  /\ m_Direction = img.direction
  /\ m_NumberOfComponents = img.components
  /\ m_ComponentType = img.componentType
  /\ m_MetaDataDictionary = img.dict

\* the image description of the ImageIOBase constructor
ConstructedImage ==
  [inferred |-> FALSE, dims |-> 0, sizes |-> <<>>, origin |-> <<>>,
   spacing |-> <<>>, direction |-> <<>>, components |-> 1,
   componentType |-> "UNKNOWNCOMPONENTTYPE", dict |-> EmptyDictionary]

\* the member defaults of the class
ConstructedMembers ==
  /\ m_H5File = "null"
  /\ openFiles = 0
  /\ m_ImageInformationWritten = FALSE
  /\ m_Path = RootPath
  /\ m_DataSetName = "data"
  /\ m_Overwrite = FALSE
  /\ m_UseMetaData = FALSE
  /\ m_UseDataSetOffset = FALSE
  /\ m_DataSetOffset = <<>>
  /\ m_UseDataSetSize = FALSE
  /\ m_DataSetSize = <<>>
  /\ m_UseDataSetStride = FALSE
  /\ m_DataSetStride = <<>>
  /\ m_IORegion = DefaultRegion
  /\ selection = NoSelection

\* the member defaults and the ImageIOBase constructor
Constructed == ConstructedMembers /\ HoldsImage(ConstructedImage)

\* the disk before the first call: no file, a file that is no container, or
\* an empty container
InitDisk ==
  /\ fileKind \in FileKinds
  /\ groups = {}
  /\ metaGroups = <<>>
  /\ writtenInfo = <<>>
  /\ datasets = <<>>

Init ==
  /\ dataModel = "LP64"
  /\ InitDisk
  /\ Constructed
  /\ lastCall = "New"
  /\ lastResult = "ok"
  /\ h5calls = {}

(***************************************************************************)
(* How an entry point returns.                                             *)
(***************************************************************************)
\* itk::ExceptionObject, by what the message says
ItkExceptions ==
  {"itk:PathNotFound", "itk:AlreadyExists", "itk:UnsupportedType",
   "itk:UnrecognizedStorageType", "itk:ContainerIOFailure",
   "itk:DimensionMismatch"}

\* exceptions of the HDF5 C++ library
H5Exceptions ==
  {"H5::FileIException", "H5::GroupIException", "H5::DataSpaceIException"}

\* a call through the null m_H5File: the process does not survive it
NullHandle == "undefined:null m_H5File"

Raised == ItkExceptions \cup H5Exceptions

(***************************************************************************)
(* Container lifecycle.                                                    *)
(***************************************************************************)
\* the handle state of the object: the pointer and the live H5File objects
Handle == [file |-> m_H5File, open |-> openFiles]

\* the disk as one record
Disk ==
  [kind |-> fileKind, groups |-> groups, datasets |-> datasets,
   metaGroups |-> metaGroups]

EmptyContainer ==
  [kind |-> "hdf5", groups |-> {}, datasets |-> <<>>, metaGroups |-> <<>>]

\* the call left out: the held H5File stays open
CloseH5File_Skipped(h) == h

\* CloseH5File: close and delete the held H5File, if any
CloseH5File(h) ==
  IF h.file # "null" THEN [file |-> "null", open |-> h.open - 1] ELSE h

\* m_H5File = new H5::H5File(...): the pointer is overwritten
NewH5File(h, mode) == [file |-> mode, open |-> h.open + 1]

\* H5::H5File(name, H5F_ACC_RDONLY) and H5F_ACC_RDWR succeed on a container
CanOpen(kind) == kind = "hdf5"

\* H5F_ACC_TRUNC whether or not the file exists
GetH5File_Truncates(disk) ==
  [ok |-> TRUE, created |-> TRUE, disk |-> EmptyContainer]

\* GetH5File: H5F_ACC_TRUNC when no file exists, else H5F_ACC_RDWR
GetH5File(disk) ==
  IF disk.kind = "absent"
    THEN [ok |-> TRUE, created |-> TRUE, disk |-> EmptyContainer]
    ELSE [ok |-> CanOpen(disk.kind), created |-> FALSE, disk |-> disk]

\* GetPathExists on the open file: the root, or a group of the container
GetPathExists(path, grps) == path = RootPath \/ path \in grps

\* only the group at the full path created
CreateGroupFromPath_LeafOnly(path, grps) == grps \cup {path}

\* CreateGroupFromPath: the elements of the path from left to right, each
\* appended to path_incremental; a prefix that exists is skipped, any other
\* is created
CreateGroupFromPath(path, grps) ==
  LET RECURSIVE Walk(_, _)
      Walk(k, made) ==
        IF k > Len(path)
          THEN made
          ELSE LET path_incremental == SubSeq(path, 1, k)
               IN Walk(k + 1, IF GetPathExists(path_incremental, made)
                                THEN made
                                ELSE made \cup {path_incremental})
  IN Walk(1, grps)

\* GetDataSetPath
GetDataSetPath == <<m_Path, m_DataSetName>>

\* f with the value v at the key k
Put(f, k, v) == [x \in DOMAIN f \cup {k} |-> IF x = k THEN v ELSE f[x]]

(***************************************************************************)
(* ReadImageInformation.                                                   *)
(***************************************************************************)
\* the dictionary left as the object holds it
Clear_Skipped(metaDict) == metaDict

\* metaDict.Clear()
Clear(metaDict) == EmptyDictionary

\* ReadImageInformation: the handle is closed and reopened read-only, the
\* path and the dataset are looked up, the attributes are read, the
\* dictionary is cleared and, with use-metadata on, the entries of the
\* metadata group are encapsulated into it
ReadImageInformationOutcome ==
  LET closed == CloseH5File(Handle)
      closing == IF m_H5File # "null" THEN {"closeFile"} ELSE {}
      addr == GetDataSetPath
      failed == [result |-> "itk:ContainerIOFailure", handle |-> closed,
                 image |-> Image, calls |-> closing]
      opened == [failed EXCEPT !.handle = NewH5File(closed, "rdonly"),
                               !.calls = closing \cup {"openFile"}]
  IN IF ~CanOpen(fileKind)
       THEN failed
       ELSE IF ~GetPathExists(m_Path, groups)
         THEN [opened EXCEPT !.result = "itk:PathNotFound"]
       ELSE IF addr \notin DOMAIN datasets
         THEN opened
       ELSE IF PredTypeToComponentType(datasets[addr].type, dataModel) = Unsupported
         THEN [opened EXCEPT !.result = "itk:UnrecognizedStorageType"]
       ELSE LET MetaData(attrs, cleared, restored) ==
                  IF attrs.result # "ok"
                    THEN [opened EXCEPT !.result = attrs.result, !.image = attrs.image]
                  ELSE IF ~m_UseMetaData
                    THEN [opened EXCEPT
                            !.result = "ok",
                            !.image = [attrs.image EXCEPT !.dict = cleared]]
                  ELSE IF m_Path \notin DOMAIN metaGroups
                    THEN [opened EXCEPT
                            !.result = "itk:PathNotFound",
                            !.image = [attrs.image EXCEPT !.dict = cleared]]
                  ELSE [opened EXCEPT
                          !.result = "ok",
                          !.image =
                             [attrs.image EXCEPT
                                !.dict =
                                   [k \in DOMAIN cleared \cup DOMAIN restored |->
                                      IF k \in DOMAIN restored THEN restored[k]
                                                               ELSE cleared[k]]]]
                Attributes(attrs) ==
                  MetaData(attrs, Clear(attrs.image.dict),
                           IF m_Path \in DOMAIN metaGroups
                             THEN ReadImageMetaData(metaGroups[m_Path], dataModel)
                             ELSE EmptyDictionary)
            IN Attributes(ReadDataSetAttributes(datasets[addr], Image, dataModel,
                                                Overrides))

ReadImageInformation ==
  \E out \in {ReadImageInformationOutcome} :
     /\ lastResult # NullHandle
     /\ \A i \in DOMAIN out.image.spacing : out.image.spacing[i] <= MaxSpacing
     /\ m_H5File' = out.handle.file
     /\ openFiles' = out.handle.open
     /\ SetImage(out.image)
     /\ lastCall' = "ReadImageInformation"
     /\ lastResult' = out.result
     /\ selection' = NoSelection
     /\ h5calls' = out.calls
     /\ UNCHANGED <<dataModel, overrideVars, m_IORegion, diskVars, m_ImageInformationWritten, configVars>>

(***************************************************************************)
(* WriteImageInformation.                                                  *)
(***************************************************************************)
\* the dataset WriteImageInformation creates for the object's image
NewDataSet(img, dm) ==
  [type |-> ComponentToPredType(img.componentType, dm),
   dims |-> ImageSpace(img),
   attrs |-> WriteDataSetAttributes(img),
   data |-> FALSE]

\* the guard left out: every call writes again
AlreadyWritten_Ignored == FALSE

\* the guard of WriteImageInformation: the information is written once
AlreadyWritten == m_ImageInformationWritten

\* the checks left out
RefusesExisting_Never(overwrite, nameExists) == FALSE

\* the two checks made before anything is created: no overwrite permission
\* and the name is already in the group
RefusesExisting(overwrite, nameExists) == ~overwrite /\ nameExists

WriteImageInformationOutcome ==
  LET addr == GetDataSetPath
      closed == CloseH5File(Handle)
      closing == IF m_H5File # "null" THEN {"closeFile"} ELSE {}
      latched == [result |-> "ok", handle |-> Handle, disk |-> Disk,
                  info |-> writtenInfo,
                  latch |-> m_ImageInformationWritten, calls |-> {}]
      got == GetH5File(Disk)
      nofile == [latched EXCEPT !.result = "itk:ContainerIOFailure",
                                !.handle = closed, !.calls = closing]
      open == [nofile EXCEPT
                 !.handle = NewH5File(closed, "rdwr"),
                 !.disk = got.disk,
                 !.calls = closing \cup {IF got.created THEN "createFile" ELSE "openFile"}]
      exists == GetPathExists(m_Path, got.disk.groups)
      group == IF exists
                 THEN open
                 ELSE [open EXCEPT
                         !.disk.groups = CreateGroupFromPath(m_Path, got.disk.groups),
                         !.calls = @ \cup {"createGroup"}]
      created == [group EXCEPT
                    !.disk.datasets = Put(@, addr, NewDataSet(Image, dataModel)),
                    !.info = Put(@, addr, Image),
                    !.calls = @ \cup {"createDataSet", "createAttribute"}]
      withMeta == [created EXCEPT
                     !.disk.metaGroups =
                        Put(@, m_Path, WriteImageMetaData(m_MetaDataDictionary, dataModel)),
                     !.calls = @ \cup {"createMetaData"}]
  IN IF AlreadyWritten
       THEN latched
       ELSE IF ~got.ok
         THEN nofile
       ELSE IF RefusesExisting(m_Overwrite, addr \in DOMAIN got.disk.datasets)
         THEN [group EXCEPT !.result = "itk:AlreadyExists"]
       ELSE IF RefusesExisting(m_Overwrite, m_Path \in DOMAIN got.disk.metaGroups)
         THEN [group EXCEPT !.result = "itk:AlreadyExists"]
       ELSE IF m_ComponentType \notin SupportedComponents
         THEN [group EXCEPT !.result = "itk:UnsupportedType"]
       ELSE IF addr \in DOMAIN got.disk.datasets
         THEN [group EXCEPT !.result = "H5::GroupIException"]
       ELSE IF ~m_UseMetaData
         THEN [created EXCEPT !.result = "ok", !.latch = TRUE]
       ELSE IF m_Path \in DOMAIN got.disk.metaGroups
         THEN [created EXCEPT !.result = "H5::GroupIException"]
       ELSE [withMeta EXCEPT !.result = "ok", !.latch = TRUE]

\* the bound on the datasets of one run
WithinBounds(out) == Cardinality(DOMAIN out.info) <= MaxDataSets

SetDisk(disk) ==
  /\ fileKind' = disk.kind
  /\ groups' = disk.groups
  /\ datasets' = disk.datasets
  /\ metaGroups' = disk.metaGroups

WriteImageInformation ==
  \E out \in {WriteImageInformationOutcome} :
     /\ lastResult # NullHandle
     /\ WithinBounds(out)
     /\ m_H5File' = out.handle.file
     /\ openFiles' = out.handle.open
     /\ SetDisk(out.disk)
     /\ writtenInfo' = out.info
     /\ m_ImageInformationWritten' = out.latch
     /\ lastCall' = "WriteImageInformation"
     /\ lastResult' = out.result
     /\ selection' = NoSelection
     /\ h5calls' = out.calls
     /\ UNCHANGED <<dataModel, overrideVars, m_IORegion, configVars, imageVars>>

(***************************************************************************)
(* Write and Read.                                                         *)
(***************************************************************************)
\* what an element of a new hsize_t[] holds before it is assigned, and what
\* a read past the end of an override vector yields: zero or something else
UnassignedValues == {0, 1}

\* the component axis left out: the hyperslab has the rank of the image
SetupStreaming_NoComponentAxis(region, nDims, numComponents, ov, g) ==
  LET Field(vec, p) == IF nDims - p + 1 \in DOMAIN vec THEN vec[nDims - p + 1] ELSE g
      HDFSize == [p \in 1..nDims |-> Field(region.size, p)]
  IN [rank |-> nDims,
      offset |-> [p \in 1..nDims |-> Field(region.index, p)],
      size |-> HDFSize,
      stride |-> [p \in 1..nDims |-> 1],
      slabSpace |-> HDFSize]

\* SetupStreaming: offset, size and stride of the hyperslab in storage order
\* (position p of the model is element p - 1 of the arrays), and the extent
\* of the transfer space.  g stands in every element the code never assigns.
SetupStreaming(region, nDims, numComponents, ov, g) ==
  LET first == IF numComponents > 1 THEN 1 ELSE 0
      HDFDim == nDims + first
      limit == Len(region.size)
      At(vec, j) == IF j + 1 \in DOMAIN vec THEN vec[j + 1] ELSE g
      Axis(p) == HDFDim - p - first
      Component(p) == numComponents > 1 /\ p = HDFDim
      Padded(p) == ~Component(p) /\ Axis(p) >= limit
      HDFSize ==
        [p \in 1..HDFDim |->
           IF Component(p) THEN numComponents
           ELSE IF Padded(p) THEN 1
           ELSE IF ov.useSize THEN At(ov.size, Axis(p))
           ELSE region.size[Axis(p) + 1]]
  IN [rank |-> HDFDim,
      offset |->
        [p \in 1..HDFDim |->
           IF Component(p) \/ Padded(p) THEN 0
           ELSE IF ov.useOffset THEN At(ov.offset, Axis(p))
           ELSE region.index[Axis(p) + 1]],
      size |-> HDFSize,
      stride |->
        [p \in 1..HDFDim |->
           IF Component(p) \/ Padded(p) THEN g
           ELSE IF ov.useStride THEN At(ov.stride, Axis(p))
           ELSE 1],
      slabSpace |-> HDFSize]

\* selectHyperslab refuses a stride of zero
StrideValid(sel) == \A p \in 1..sel.rank : sel.stride[p] >= 1

\* Write: WriteImageInformation, then the hyperslab, GetDataSet and ds.write
WriteOutcome(strideValid) ==
  LET info == WriteImageInformationOutcome
      addr == GetDataSetPath
  IN IF info.result # "ok"
       THEN info
       ELSE IF m_ComponentType \notin SupportedComponents
         THEN [info EXCEPT !.result = "itk:UnsupportedType"]
       ELSE IF ~strideValid
         THEN [info EXCEPT !.result = "itk:ContainerIOFailure"]
       ELSE IF info.handle.file = "null"
         THEN [info EXCEPT !.result = NullHandle]
       ELSE IF addr \notin DOMAIN info.disk.datasets
         THEN [info EXCEPT !.result = "itk:ContainerIOFailure"]
       ELSE IF info.handle.file # "rdwr"
         THEN [info EXCEPT !.result = "itk:ContainerIOFailure"]
       ELSE [info EXCEPT !.disk.datasets[addr].data = TRUE,
                         !.calls = @ \cup {"writeData"}]

Write ==
  \E g \in UnassignedValues :
  \E sel \in {SetupStreaming(m_IORegion, m_NumberOfDimensions,
                              m_NumberOfComponents, Overrides, g)} :
  \E out \in {WriteOutcome(StrideValid(sel))} :
    LET reached == /\ WriteImageInformationOutcome.result = "ok"
                   /\ m_ComponentType \in SupportedComponents
    IN /\ lastResult # NullHandle
       /\ WithinBounds(out)
       /\ m_H5File' = out.handle.file
       /\ openFiles' = out.handle.open
       /\ SetDisk(out.disk)
       /\ writtenInfo' = out.info
       /\ m_ImageInformationWritten' = out.latch
       /\ lastCall' = "Write"
       /\ lastResult' = out.result
       /\ selection' = IF reached THEN sel ELSE NoSelection
       /\ h5calls' = out.calls
       /\ UNCHANGED <<dataModel, overrideVars, m_IORegion, configVars, imageVars>>

\* Read: GetDataSet and SetupStreaming before the try block, ds.read in it
ReadOutcome(strideValid) ==
  IF m_H5File = "null"
    THEN NullHandle
    ELSE IF GetDataSetPath \notin DOMAIN datasets
      THEN "H5::FileIException"
      ELSE IF ~strideValid THEN "H5::DataSpaceIException" ELSE "ok"

Read ==
  \E g \in UnassignedValues :
  \E sel \in {SetupStreaming(m_IORegion, m_NumberOfDimensions,
                              m_NumberOfComponents, Overrides, g)} :
    LET reached == m_H5File # "null" /\ GetDataSetPath \in DOMAIN datasets
    IN
    /\ lastResult # NullHandle
    /\ lastCall' = "Read"
    /\ lastResult' = ReadOutcome(StrideValid(sel))
    /\ selection' = IF reached THEN sel ELSE NoSelection
    /\ h5calls' = {}
    /\ UNCHANGED <<dataModel, overrideVars, m_IORegion, diskVars, handleVars, m_ImageInformationWritten,
                   configVars, imageVars>>

(***************************************************************************)
(* DataSetExists and CanReadFile.                                          *)
(***************************************************************************)
\* DataSetExists: every return path has closed the handle
DataSetExistsOutcome ==
  LET closed == CloseH5File(Handle)
      closing == IF m_H5File # "null" THEN {"closeFile"} ELSE {}
      opened == NewH5File(closed, "rdonly")
      reclosed == [result |-> "false", handle |-> CloseH5File(opened),
                   calls |-> {"openFile", "closeFile"}]
  IN IF fileKind = "absent"
       THEN [result |-> "false", handle |-> closed, calls |-> closing]
       ELSE IF ~CanOpen(fileKind)
         THEN [result |-> "false", handle |-> CloseH5File(closed), calls |-> closing]
       ELSE IF ~GetPathExists(m_Path, groups)
         THEN reclosed
       ELSE IF GetDataSetPath \notin DOMAIN datasets
         THEN reclosed
       ELSE [reclosed EXCEPT !.result = "true"]

DataSetExists ==
  \E out \in {DataSetExistsOutcome} :
     /\ lastResult # NullHandle
     /\ m_H5File' = out.handle.file
     /\ openFiles' = out.handle.open
     /\ lastCall' = "DataSetExists"
     /\ lastResult' = out.result
     /\ selection' = NoSelection
     /\ h5calls' = out.calls
     /\ UNCHANGED <<dataModel, overrideVars, m_IORegion, diskVars, m_ImageInformationWritten, configVars,
                    imageVars>>

\* H5Fis_hdf5: positive, zero, or negative when it cannot tell
H5Fis_hdf5(kind) ==
  CASE kind \in {"hdf5", "damaged"} -> 1
    [] kind = "other" -> 0
    [] OTHER -> -1

\* H5::H5File h5file(FileNameToRead, H5F_ACC_RDONLY): opens, or raises
OpenReadOnly(kind) == IF CanOpen(kind) THEN "opened" ELSE "H5::FileIException"

\* the open outside any try block
CanReadFileOutcome_NoCatch(kind) ==
  IF kind = "absent"
    THEN "false"
    ELSE IF H5Fis_hdf5(kind) <= 0
      THEN "false"
      ELSE IF OpenReadOnly(kind) = "opened" THEN "true" ELSE OpenReadOnly(kind)

\* CanReadFile: FileExists, the signature probe, then a read-only open
\* inside try / catch (...), which turns every exception into false
CanReadFileOutcome(kind) ==
  IF kind = "absent"
    THEN "false"
    ELSE IF H5Fis_hdf5(kind) <= 0
      THEN "false"
      ELSE IF OpenReadOnly(kind) = "opened" THEN "true" ELSE "false"

CanReadFile ==
  /\ lastResult # NullHandle
  /\ lastCall' = "CanReadFile"
  /\ lastResult' = CanReadFileOutcome(fileKind)
  /\ selection' = NoSelection
  /\ h5calls' = IF CanReadFileOutcome(fileKind) = "true"
                  THEN {"openFile", "closeFile"} ELSE {}
  /\ UNCHANGED <<dataModel, overrideVars, m_IORegion, diskVars, handleVars, m_ImageInformationWritten,
                 configVars, imageVars>>

(***************************************************************************)
(* Configuration by the host, and a new object.                            *)
(***************************************************************************)
Configured ==
  /\ lastResult # NullHandle
  /\ lastCall' = "Set"
  /\ lastResult' = "ok"
  /\ selection' = NoSelection
  /\ h5calls' = {}

SetPath(path) ==
  /\ Configured
  /\ m_Path' = path
  /\ UNCHANGED <<dataModel, overrideVars, m_IORegion, diskVars, handleVars, m_ImageInformationWritten,
                 m_DataSetName, m_Overwrite, m_UseMetaData, imageVars>>

SetDataSetName(name) ==
  /\ Configured
  /\ m_DataSetName' = name
  /\ UNCHANGED <<dataModel, overrideVars, m_IORegion, diskVars, handleVars, m_ImageInformationWritten,
                 m_Path, m_Overwrite, m_UseMetaData, imageVars>>

SetOverwrite(flag) ==
  /\ Configured
  /\ m_Overwrite' = flag
  /\ UNCHANGED <<dataModel, overrideVars, m_IORegion, diskVars, handleVars, m_ImageInformationWritten,
                 m_Path, m_DataSetName, m_UseMetaData, imageVars>>

SetUseMetaData(flag) ==
  /\ Configured
  /\ m_UseMetaData' = flag
  /\ UNCHANGED <<dataModel, overrideVars, m_IORegion, diskVars, handleVars, m_ImageInformationWritten,
                 m_Path, m_DataSetName, m_Overwrite, imageVars>>

\* GetDataSetOffset() and SetUseDataSetOffset: the host fills the vector and
\* sets the flag
SetDataSetOffset(flag, vec) ==
  /\ Configured
  /\ m_UseDataSetOffset' = flag
  /\ m_DataSetOffset' = vec
  /\ UNCHANGED <<dataModel, diskVars, handleVars, m_ImageInformationWritten,
                 configVars, imageVars, m_IORegion, m_UseDataSetSize,
                 m_DataSetSize, m_UseDataSetStride, m_DataSetStride>>

\* GetDataSetSize() and SetUseDataSetSize
SetDataSetSize(flag, vec) ==
  /\ Configured
  /\ m_UseDataSetSize' = flag
  /\ m_DataSetSize' = vec
  /\ UNCHANGED <<dataModel, diskVars, handleVars, m_ImageInformationWritten,
                 configVars, imageVars, m_IORegion, m_UseDataSetOffset,
                 m_DataSetOffset, m_UseDataSetStride, m_DataSetStride>>

\* GetDataSetStride() and SetUseDataSetStride
SetDataSetStride(flag, vec) ==
  /\ Configured
  /\ m_UseDataSetStride' = flag
  /\ m_DataSetStride' = vec
  /\ UNCHANGED <<dataModel, diskVars, handleVars, m_ImageInformationWritten,
                 configVars, imageVars, m_IORegion, m_UseDataSetOffset,
                 m_DataSetOffset, m_UseDataSetSize, m_DataSetSize>>

\* the whole image as a region: index zero on every axis
LargestRegion(sizes) == [index |-> [i \in DOMAIN sizes |-> 0], size |-> sizes]

\* the host (an image file writer) hands over the image description:
\* SetNumberOfDimensions, SetDimensions, SetOrigin, SetSpacing, SetDirection,
\* SetNumberOfComponents, SetComponentType, SetMetaDataDictionary, and
\* SetIORegion with the whole image
SetImageInformation(info) ==
  /\ Configured
  /\ SetImage([info EXCEPT !.inferred = m_UseInferredDimensions])
  /\ m_IORegion' = LargestRegion(info.sizes)
  /\ UNCHANGED <<dataModel, overrideVars, diskVars, handleVars,
                 m_ImageInformationWritten, configVars>>

\* the host (an image file reader) requests a region: SetIORegion
SetIORegion(region) ==
  /\ Configured
  /\ m_IORegion' = region
  /\ UNCHANGED <<dataModel, overrideVars, diskVars, handleVars,
                 m_ImageInformationWritten, configVars, imageVars>>

\* the destructor (CloseH5File) of the object and the construction of the next
NewObject ==
  /\ lastResult # NullHandle
  /\ LET closed == CloseH5File(Handle)
     IN /\ m_H5File' = closed.file
        /\ openFiles' = closed.open
        /\ selection' = NoSelection
        /\ h5calls' = IF m_H5File # "null" THEN {"closeFile"} ELSE {}
  /\ m_ImageInformationWritten' = FALSE
  /\ m_Path' = RootPath
  /\ m_DataSetName' = "data"
  /\ m_Overwrite' = FALSE
  /\ m_UseMetaData' = FALSE
  /\ SetImage(ConstructedImage)
  /\ m_UseDataSetOffset' = FALSE
  /\ m_DataSetOffset' = <<>>
  /\ m_UseDataSetSize' = FALSE
  /\ m_DataSetSize' = <<>>
  /\ m_UseDataSetStride' = FALSE
  /\ m_DataSetStride' = <<>>
  /\ m_IORegion' = DefaultRegion
  /\ lastCall' = "New"
  /\ lastResult' = "ok"
  /\ UNCHANGED <<dataModel, diskVars>>

(***************************************************************************)
(* The main specification: any sequence of calls on the object.            *)
(***************************************************************************)
\* the image description of the main specification
ImageInfos == {ImageInfo(2, 1, 0, "FLOAT")}

Next ==
  \/ ReadImageInformation
  \/ WriteImageInformation
  \/ Write
  \/ Read
  \/ DataSetExists
  \/ CanReadFile
  \/ NewObject
  \/ \E path \in Paths : SetPath(path)
  \/ \E name \in DataSetNames : SetDataSetName(name)
  \/ \E flag \in BOOLEAN : SetOverwrite(flag)
  \/ \E flag \in BOOLEAN : SetUseMetaData(flag)
  \/ \E info \in ImageInfos : SetImageInformation(info)

Spec == Init /\ [][Next]_vars

(***************************************************************************)
(* The geometry specification: images of every dimensionality and          *)
(* component count are written to the default address and read back, by    *)
(* the same object or by a new one.                                        *)
(***************************************************************************)
GeomInfos ==
  {ImageInfo(n, c, v, "FLOAT") : n \in 1..MaxDims, c \in 1..MaxComponents, v \in 0..1}

InitGeom ==
  /\ dataModel = "LP64"
  /\ fileKind \in {"absent", "hdf5"}
  /\ groups = {}
  /\ metaGroups = <<>>
  /\ writtenInfo = <<>>
  /\ IF fileKind = "hdf5"
       THEN \E ds \in ForeignDataSets :
              datasets = [a \in {<<RootPath, "data">>} |-> ds]
       ELSE datasets = <<>>
  /\ Constructed
  /\ lastCall = "New"
  /\ lastResult = "ok"
  /\ h5calls = {}

NextGeom ==
  \/ \E info \in GeomInfos : SetImageInformation(info)
  \/ WriteImageInformation
  \/ ReadImageInformation
  \/ Read
  \/ NewObject

SpecGeom == InitGeom /\ [][NextGeom]_vars

(***************************************************************************)
(* The type specification: a one-axis image of every component kind is     *)
(* written and read back, under each data model.                           *)
(***************************************************************************)
TypeInfos == {ImageInfo(1, 1, 0, cType) : cType \in IOComponentEnum}

InitTypes ==
  /\ dataModel \in DataModels
  /\ fileKind = "absent"
  /\ groups = {}
  /\ metaGroups = <<>>
  /\ writtenInfo = <<>>
  /\ datasets = <<>>
  /\ Constructed
  /\ lastCall = "New"
  /\ lastResult = "ok"
  /\ h5calls = {}

NextTypes ==
  \/ \E info \in TypeInfos : SetImageInformation(info)
  \/ WriteImageInformation
  \/ ReadImageInformation
  \/ NewObject

SpecTypes == InitTypes /\ [][NextTypes]_vars

(***************************************************************************)
(* The override specification: a container holding one dataset is read     *)
(* under every combination of the offset, size and stride overrides.       *)
(***************************************************************************)
\* a two-axis image large enough to be strided
StridedInfo == [ImageInfo(2, 1, 0, "FLOAT") EXCEPT !.sizes = <<7, 10>>]

\* a cube of side 100
CubeInfo == [ImageInfo(3, 1, 0, "FLOAT") EXCEPT !.sizes = <<100, 100, 100>>]

OverrideDataSets ==
  {NewDataSet(StridedInfo, "LP64"), NewDataSet(CubeInfo, "LP64"), ForeignDataSet}

SizeOverrides == {<<5, 6>>, <<5, 6, 7>>}

StrideOverrides == {<<2, 3>>, <<1, 2>>, <<2, 2, 2>>}

OffsetOverrides == {<<0, 1>>, <<4, 0>>, <<0, 0, 0>>}

InitOverride ==
  /\ dataModel = "LP64"
  /\ fileKind = "hdf5"
  /\ groups = {}
  /\ metaGroups = <<>>
  /\ writtenInfo = <<>>
  /\ \E ds \in OverrideDataSets : datasets = [a \in {<<RootPath, "data">>} |-> ds]
  /\ Constructed
  /\ lastCall = "New"
  /\ lastResult = "ok"
  /\ h5calls = {}

NextOverride ==
  \/ SetDataSetOffset(FALSE, <<>>)
  \/ \E vec \in OffsetOverrides : SetDataSetOffset(TRUE, vec)
  \/ SetDataSetSize(FALSE, <<>>)
  \/ \E vec \in SizeOverrides : SetDataSetSize(TRUE, vec)
  \/ SetDataSetStride(FALSE, <<>>)
  \/ \E vec \in StrideOverrides : SetDataSetStride(TRUE, vec)
  \/ ReadImageInformation
  \/ NewObject

SpecOverride == InitOverride /\ [][NextOverride]_vars

(***************************************************************************)
(* The streaming specification: a three-axis image of one or three         *)
(* components is written and read region by region under every             *)
(* combination of the overrides.                                           *)
(***************************************************************************)
\* images of 10 x 20 x 30 pixels of one and of three components
StreamInfos ==
  {[ImageInfo(3, c, 0, "FLOAT") EXCEPT !.sizes = <<10, 20, 30>>] : c \in {1, 3}}

\* the whole image, a part of it, and a two-axis region
StreamRegions ==
  {LargestRegion(<<10, 20, 30>>),
   [index |-> <<1, 2, 3>>, size |-> <<4, 5, 6>>],
   [index |-> <<1, 2>>, size |-> <<4, 5>>]}

InitStream ==
  /\ dataModel = "LP64"
  /\ fileKind = "absent"
  /\ groups = {}
  /\ metaGroups = <<>>
  /\ writtenInfo = <<>>
  /\ datasets = <<>>
  /\ Constructed
  /\ lastCall = "New"
  /\ lastResult = "ok"
  /\ h5calls = {}

NextStream ==
  \/ SetDataSetOffset(FALSE, <<>>)
  \/ \E vec \in OffsetOverrides : SetDataSetOffset(TRUE, vec)
  \/ SetDataSetSize(FALSE, <<>>)
  \/ \E vec \in SizeOverrides : SetDataSetSize(TRUE, vec)
  \/ SetDataSetStride(FALSE, <<>>)
  \/ \E vec \in StrideOverrides : SetDataSetStride(TRUE, vec)
  \/ \E region \in StreamRegions : SetIORegion(region)
  \/ \E info \in StreamInfos : SetImageInformation(info)
  \/ Write
  \/ ReadImageInformation
  \/ Read
  \/ NewObject

SpecStream == InitStream /\ [][NextStream]_vars

(***************************************************************************)
(* The group specification: images are written under paths of up to two    *)
(* elements into a container that starts absent.                           *)
(***************************************************************************)
GroupPaths == {RootPath, <<"a">>, <<"a", "b">>, <<"c">>}

InitGroups ==
  /\ dataModel = "LP64"
  /\ fileKind = "absent"
  /\ groups = {}
  /\ metaGroups = <<>>
  /\ writtenInfo = <<>>
  /\ datasets = <<>>
  /\ Constructed
  /\ lastCall = "New"
  /\ lastResult = "ok"
  /\ h5calls = {}

NextGroups ==
  \/ \E path \in GroupPaths : SetPath(path)
  \/ \E flag \in BOOLEAN : SetOverwrite(flag)
  \/ \E info \in ImageInfos : SetImageInformation(info)
  \/ WriteImageInformation
  \/ NewObject

SpecGroups == InitGroups /\ [][NextGroups]_vars

(***************************************************************************)
(* The attribute specification: a container holds one two-axis dataset     *)
(* with any of its four geometry attributes missing; it is read by objects *)
(* that hold a geometry of two or of three axes.                           *)
(***************************************************************************)
\* the dataset of a two-axis image without the attributes named
PartialDataSets ==
  {LET ds == NewDataSet(ImageInfo(2, 1, 0, "FLOAT"), "LP64")
   IN [ds EXCEPT !.attrs = [k \in DOMAIN ds.attrs \ missing |-> ds.attrs[k]]] :
     missing \in SUBSET {"Dimension", "Origin", "Spacing", "Directions"}}

\* what the host configures before the read: other values on two axes, and
\* three axes
AttrInfos == {ImageInfo(2, 1, 1, "FLOAT"), ImageInfo(3, 1, 0, "FLOAT")}

InitAttrs ==
  /\ dataModel = "LP64"
  /\ fileKind = "hdf5"
  /\ groups = {}
  /\ metaGroups = <<>>
  /\ writtenInfo = <<>>
  /\ \E ds \in PartialDataSets : datasets = [a \in {<<RootPath, "data">>} |-> ds]
  /\ Constructed
  /\ lastCall = "New"
  /\ lastResult = "ok"
  /\ h5calls = {}

NextAttrs ==
  \/ \E info \in AttrInfos : SetImageInformation(info)
  \/ ReadImageInformation
  \/ NewObject

SpecAttrs == InitAttrs /\ [][NextAttrs]_vars


(* written with use-metadata on and read back, under each data model.      *)
(***************************************************************************)
\* sizeof the C++ type
SizeOfType(type, dm) ==
  CASE type \in {"bool", "char", "unsigned char"} -> 1
    [] type \in {"short", "unsigned short"} -> 2
    [] type \in {"int", "unsigned int", "float"} -> 4
    [] type \in {"long", "unsigned long"} -> SizeOfLong(dm)
    [] OTHER -> 8

SignedTypes == {"char", "short", "int", "long", "long long"}

\* the values at the ends of the 4-byte and 8-byte ranges, and around zero
BoundaryValues ==
  {-1, 0, 1} \cup
  UNION {{2 ^ (Bits(n) - 1) - 1, 2 ^ (Bits(n) - 1), -(2 ^ (Bits(n) - 1)),
          2 ^ Bits(n) - 1} : n \in {4, 8}}

\* the values of the type's range among them
ScalarSamples(type, dm) ==
  IF type = "bool" THEN {0, 1}
  ELSE IF type \in {"float", "double"} THEN {-1, 0, 5}
  ELSE LET bits == Bits(SizeOfType(type, dm))
       IN {v \in BoundaryValues :
             IF type \in SignedTypes
               THEN -(2 ^ (bits - 1)) <= v /\ v < 2 ^ (bits - 1)
               ELSE 0 <= v /\ v < 2 ^ bits}

\* arrays of one, two and three elements
ArraySamples == {<<1>>, <<1, 0>>, <<0, 1, 1>>}

MetaEntries(dm) ==
  UNION {{[type |-> t, array |-> FALSE, value |-> v] : v \in ScalarSamples(t, dm)} :
           t \in Range(ScalarWriters)}
  \cup {[type |-> t, array |-> TRUE, value |-> v] :
          t \in Range(ArrayWriters) \cup {"long long"}, v \in ArraySamples}
  \cup {[type |-> "std::string", array |-> FALSE, value |-> v] : v \in {"", "ITK"}}

\* dictionaries of one entry, and of two
MetaDictionaries(dm) ==
  {[k \in {"key"} |-> e] : e \in MetaEntries(dm)}
  \cup {[k \in {"alpha", "beta"} |-> IF k = "alpha" THEN a ELSE b] :
          a \in {[type |-> "long long", array |-> TRUE, value |-> <<1, 0>>],
                 [type |-> "std::string", array |-> FALSE, value |-> "ITK"]},
          b \in {[type |-> "int", array |-> FALSE, value |-> 1],
                 [type |-> "double", array |-> TRUE, value |-> <<1, 0>>]}}

MetaInfos(dm) ==
  {[ImageInfo(1, 1, 0, "FLOAT") EXCEPT !.dict = d] : d \in MetaDictionaries(dm)}

\* a new object the host has handed an image and its dictionary
InitMeta ==
  /\ dataModel \in DataModels
  /\ fileKind = "absent"
  /\ groups = {}
  /\ metaGroups = <<>>
  /\ writtenInfo = <<>>
  /\ datasets = <<>>
  /\ ConstructedMembers
  /\ \E info \in MetaInfos(dataModel) : HoldsImage(info)
  /\ lastCall = "Set"
  /\ lastResult = "ok"
  /\ h5calls = {}

NextMeta ==
  \/ \E flag \in BOOLEAN : SetUseMetaData(flag)
  \/ WriteImageInformation
  \/ ReadImageInformation
  \/ NewObject

SpecMeta == InitMeta /\ [][NextMeta]_vars

(***************************************************************************)
(* Properties.                                                             *)
(***************************************************************************)
Creations ==
  {"createFile", "createGroup", "createDataSet", "createAttribute",
   "createMetaData"}

EntryPoints == {"ReadImageInformation", "Read", "WriteImageInformation", "Write"}

\* the stored form of a dataset without its voxels
Stored(ds) == [type |-> ds.type, dims |-> ds.dims, attrs |-> ds.attrs]

\* C1: once WriteImageInformation has completed successfully on an object
\* (the latch is set), a later WriteImageInformation, called directly or
\* through Write, opens no file, creates no group, dataset, attribute or
\* metadata object, and leaves the stored groups, datasets, attributes and
\* metadata as they are.
C1_WriteOnce ==
  [][(m_ImageInformationWritten
        /\ lastCall' \in {"WriteImageInformation", "Write"})
       => /\ h5calls' \cap (Creations \cup {"openFile"}) = {}
          /\ groups' = groups
          /\ metaGroups' = metaGroups
          /\ DOMAIN datasets' = DOMAIN datasets
          /\ \A a \in DOMAIN datasets : Stored(datasets'[a]) = Stored(datasets[a])]_vars

\* a second call of WriteImageInformation on the object that wrote: it
\* returned without any library call
C1_Witness ==
  /\ lastCall = "WriteImageInformation"
  /\ m_ImageInformationWritten
  /\ lastResult = "ok"
  /\ h5calls = {}

\* C2: the object holds at most one open container handle: no H5File is
\* alive except the one m_H5File points to, so every open was preceded by
\* the close of the handle held before.
C2_OneHandle ==
  /\ openFiles <= 1
  /\ (openFiles = 1) <=> (m_H5File # "null")

\* an entry point found a handle open, closed it and opened the next
C2_Witness ==
  /\ lastCall \in {"ReadImageInformation", "WriteImageInformation"}
  /\ {"closeFile", "openFile"} \subseteq h5calls
  /\ m_H5File # "null"

\* C3: when ReadImageInformation, Read, WriteImageInformation or Write
\* fails with an error, the container handle is closed when the error
\* reaches the caller.
C3_ClosedOnError ==
  (lastCall \in EntryPoints
     /\ lastResult \in {"itk:PathNotFound", "itk:AlreadyExists",
                        "itk:ContainerIOFailure"})
    => m_H5File = "null"

\* C4: the write-side open creates a container only when no file exists;
\* an existing container keeps its groups, datasets and metadata over
\* every step, and a file that is no container is left as it is.
C4_NeverTruncates ==
  [][/\ "createFile" \in h5calls' => fileKind = "absent"
     /\ (lastCall' \in {"WriteImageInformation", "Write"} /\ "openFile" \in h5calls')
          => (fileKind = "hdf5" /\ m_H5File' = "rdwr")
     /\ fileKind # "absent" => fileKind' = fileKind
     /\ groups \subseteq groups'
     /\ DOMAIN datasets \subseteq DOMAIN datasets'
     /\ \A a \in DOMAIN datasets : Stored(datasets'[a]) = Stored(datasets[a])
     /\ DOMAIN metaGroups \subseteq DOMAIN metaGroups'
     /\ \A q \in DOMAIN metaGroups : metaGroups'[q] = metaGroups[q]]_vars

\* WriteImageInformation of a new object reopened the container that holds
\* the dataset an earlier object wrote
C4_Witness ==
  /\ lastCall = "WriteImageInformation"
  /\ "openFile" \in h5calls
  /\ m_H5File = "rdwr"
  /\ ~m_ImageInformationWritten
  /\ DOMAIN writtenInfo # {}
  /\ DOMAIN datasets = DOMAIN writtenInfo

\* the target group holds the configured dataset name or the metadata group
TargetExists == GetDataSetPath \in DOMAIN datasets \/ m_Path \in DOMAIN metaGroups

\* what a refused WriteImageInformation must look like: AlreadyExists, and
\* no dataset, attribute or metadata object created
RefusedStep ==
  /\ lastResult' = "itk:AlreadyExists"
  /\ datasets' = datasets
  /\ metaGroups' = metaGroups
  /\ h5calls' \cap {"createDataSet", "createAttribute", "createMetaData"} = {}

\* C5 as stated: with the overwrite flag off, WriteImageInformation fails
\* with AlreadyExists whenever the target group already contains the
\* configured dataset name or the ITKMetaData group, before creating any
\* dataset, attribute or metadata object.
C5_RefusesExisting ==
  [][(lastCall' = "WriteImageInformation" /\ ~m_Overwrite
        /\ fileKind = "hdf5" /\ TargetExists)
       => RefusedStep]_vars

\* C5 as amended: the same, for a call on an object whose write-once latch
\* is not set (a latched object returns without looking at the container).
C5_RefusesExistingUnlessWritten ==
  [][(lastCall' = "WriteImageInformation" /\ ~m_Overwrite
        /\ ~m_ImageInformationWritten
        /\ fileKind = "hdf5" /\ TargetExists)
       => RefusedStep]_vars

\* a new object was refused the address an earlier object wrote
C5_Witness ==
  /\ lastCall = "WriteImageInformation"
  /\ lastResult = "itk:AlreadyExists"
  /\ ~m_Overwrite
  /\ ~m_ImageInformationWritten
  /\ TargetExists

\* C6: no exception of the HDF5 library leaves ReadImageInformation, Read,
\* WriteImageInformation or Write: whatever its kind it reaches the caller
\* as an itk exception.
C6_NoLibraryException ==
  lastCall \in EntryPoints => lastResult \notin H5Exceptions

\* C7: CanReadFile returns a boolean and never raises; it returns true
\* exactly when the file exists, the signature probe is positive and the
\* read-only open succeeds.
C7_CanReadFile ==
  lastCall = "CanReadFile"
    => /\ lastResult \in {"true", "false"}
       /\ (lastResult = "true")
            <=> (fileKind # "absent" /\ H5Fis_hdf5(fileKind) > 0
                   /\ OpenReadOnly(fileKind) = "opened")

\* CanReadFile on a file that carries the signature and cannot be opened
C7_Witness ==
  /\ lastCall = "CanReadFile"
  /\ fileKind = "damaged"
  /\ lastResult = "false"

\* the datasets WriteImageInformation created in this run
Written == DOMAIN datasets \cap DOMAIN writtenInfo

\* C8: for each of the twelve supported component kinds k,
\* PredTypeToComponentType(ComponentToPredType(k)) = k: every dataset
\* written from a supported kind has a storage type that maps back to it.
C8_TypeRoundTrip ==
  \A a \in Written :
    writtenInfo[a].componentType \in SupportedComponents
      => PredTypeToComponentType(datasets[a].type, dataModel)
           = writtenInfo[a].componentType

\* ReadImageInformation has just succeeded on a dataset of this run
ReadBack ==
  /\ lastCall = "ReadImageInformation"
  /\ lastResult = "ok"
  /\ GetDataSetPath \in Written

\* C9: a single-component geometry of 1 to MaxDims dimensions written by
\* WriteImageInformation is read back by ReadImageInformation with the same
\* dimensionality, sizes, origin, spacing and direction matrix.
C9_GeometryRoundTrip ==
  (ReadBack /\ writtenInfo[GetDataSetPath].components = 1)
    => LET w == writtenInfo[GetDataSetPath]
       IN /\ m_NumberOfDimensions = w.dims
          /\ m_Dimensions = w.sizes
          /\ m_Origin = w.origin
          /\ m_Spacing = w.spacing
          /\ m_Direction = w.direction

\* an object that did not write has read back a geometry of MaxDims axes
C9_Witness ==
  /\ ReadBack
  /\ ~m_ImageInformationWritten
  /\ writtenInfo[GetDataSetPath].components = 1
  /\ writtenInfo[GetDataSetPath].dims = MaxDims
  /\ m_NumberOfDimensions = MaxDims

\* C10: when the Dimension attribute has length n and the storage rank is
\* greater than n, ReadImageInformation sets the component count to the
\* size of the last storage axis; so a dataset written with C > 1
\* components reads back with component count C.
C10_ComponentCount ==
  LET a == GetDataSetPath
  IN (/\ lastCall = "ReadImageInformation"
      /\ lastResult = "ok"
      /\ a \in DOMAIN datasets
      /\ "Dimension" \in DOMAIN datasets[a].attrs
      /\ Len(datasets[a].dims) > datasets[a].attrs.Dimension.shape[1])
       => /\ m_NumberOfComponents = datasets[a].dims[Len(datasets[a].dims)]
          /\ a \in Written => m_NumberOfComponents = writtenInfo[a].components

\* the dataset ReadImageInformation has just read, when it returned normally
ReadDataSet == datasets[GetDataSetPath]

ReadOk ==
  /\ lastCall = "ReadImageInformation"
  /\ lastResult = "ok"
  /\ GetDataSetPath \in DOMAIN datasets

\* C11: when the dataset has no Dimension attribute, ReadImageInformation
\* sets the dimensionality to the storage rank r, logical size i to storage
\* size r-1-i (the storage sizes reversed), the component count to one, and
\* marks the object as using inferred dimensions.
C11_InferredDimensions ==
  (ReadOk /\ "Dimension" \notin DOMAIN ReadDataSet.attrs)
    => LET r == Len(ReadDataSet.dims)
       IN /\ m_NumberOfDimensions = r
          /\ m_Dimensions = [i \in 1..r |-> ReadDataSet.dims[r + 1 - i]]
          /\ m_NumberOfComponents = 1
          /\ m_UseInferredDimensions

\* a three-axis dataset without attributes has been read
C11_Witness ==
  /\ ReadOk
  /\ "Dimension" \notin DOMAIN ReadDataSet.attrs
  /\ ReadDataSet.dims = <<2, 3, 4>>
  /\ m_Dimensions = <<4, 3, 2>>

\* the dimensionality the dataset declares, or its rank when it declares none
DeclaredDimensions(ds) ==
  IF "Dimension" \in DOMAIN ds.attrs THEN ds.attrs.Dimension.shape[1] ELSE Len(ds.dims)

\* the logical sizes the dataset declares, or its storage sizes reversed
DeclaredSizes(ds) ==
  IF "Dimension" \in DOMAIN ds.attrs
    THEN ds.attrs.Dimension.buf
    ELSE [i \in 1..Len(ds.dims) |-> ds.dims[Len(ds.dims) + 1 - i]]

\* ReadImageInformation reaches the overrides: the dataset has been opened
ReadsAttributes ==
  /\ lastCall' = "ReadImageInformation"
  /\ lastResult' \in {"ok", "itk:DimensionMismatch"}
  /\ GetDataSetPath \in DOMAIN datasets

\* C12: with the size override enabled, ReadImageInformation fails with
\* DimensionMismatch when the override's length differs from the declared or
\* inferred dimensionality, and otherwise sets every size to the override's.
C12_SizeOverride ==
  [][(ReadsAttributes /\ m_UseDataSetSize)
       => IF Len(m_DataSetSize) # DeclaredDimensions(ReadDataSet)
            THEN lastResult' = "itk:DimensionMismatch"
            ELSE m_Dimensions' = m_DataSetSize]_vars

\* a read whose sizes are the override's and not the stored ones
C12_Witness ==
  /\ ReadOk
  /\ m_UseDataSetSize
  /\ m_Dimensions = m_DataSetSize
  /\ m_Dimensions # DeclaredSizes(ReadDataSet)

\* C13: after ReadImageInformation with the stride override enabled and no
\* size override, on every axis the spacing is the stored spacing times the
\* stride, and the size is floor(storage size / stride) - offset where the
\* stride exceeds one (offset 0 without an offset override) and the storage
\* size where the stride is one.
C13_StrideOverride ==
  (ReadOk /\ m_UseDataSetStride /\ ~m_UseDataSetSize
     /\ "Spacing" \in DOMAIN ReadDataSet.attrs)
    => \A i \in 1..m_NumberOfDimensions :
         LET stride == m_DataSetStride[i]
             offset == IF m_UseDataSetOffset THEN m_DataSetOffset[i] ELSE 0
             stored == DeclaredSizes(ReadDataSet)[i]
         IN /\ m_Spacing[i] = ReadDataSet.attrs.Spacing.buf[i] * stride
            /\ m_Dimensions[i] = IF stride > 1 THEN (stored \div stride) - offset
                                               ELSE stored

\* the cube of side 100 read with stride 2 on every axis and no offset
C13_Witness ==
  /\ ReadOk
  /\ m_UseDataSetStride /\ ~m_UseDataSetSize /\ ~m_UseDataSetOffset
  /\ m_DataSetStride = <<2, 2, 2>>
  /\ m_Dimensions = <<50, 50, 50>>
  /\ m_Spacing = <<6, 8, 10>>

\* the types whose scalars are stored with a disambiguation tag
TaggedTypes == {"bool", "long", "unsigned long", "long long", "unsigned long long"}

\* the dictionary the dataset just read was written from
WrittenDictionary == writtenInfo[GetDataSetPath].dict

\* ReadImageInformation has restored the metadata of a written dataset
MetaReadBack == ReadBack /\ m_UseMetaData

\* C14: a scalar of a tagged type (bool, long, unsigned long, long long,
\* unsigned long long), whatever its value in the type's range, written by
\* WriteScalar and restored by ReadImageMetaData, comes back as an entry of
\* the same type holding the same value.
C14_TaggedScalarRoundTrip ==
  MetaReadBack
    => \A k \in DOMAIN WrittenDictionary :
         LET e == WrittenDictionary[k]
         IN (~e.array /\ e.type \in TaggedTypes)
              => /\ k \in DOMAIN m_MetaDataDictionary
                 /\ m_MetaDataDictionary[k] = e

\* a tagged scalar has been written and restored
C14_Witness ==
  /\ MetaReadBack
  /\ \E k \in DOMAIN WrittenDictionary :
       /\ ~WrittenDictionary[k].array
       /\ WrittenDictionary[k].type \in TaggedTypes
       /\ k \in DOMAIN m_MetaDataDictionary
       /\ m_MetaDataDictionary[k] = WrittenDictionary[k]

\* an entry of a type WriteImageMetaData has a writer for
SupportedEntry(e) ==
  \/ ~e.array /\ e.type \in Range(ScalarWriters) \cup {"std::string"}
  \/ e.array /\ e.type \in Range(ArrayWriters)

\* C15: a dictionary whose entries are all of supported types (scalars,
\* strings, arrays of any length) written by WriteImageMetaData and restored
\* by ReadImageMetaData into an empty dictionary comes back with the same
\* keys and, for each key, the same value of the same type.
C15_DictionaryRoundTrip ==
  (MetaReadBack /\ \A k \in DOMAIN WrittenDictionary : SupportedEntry(WrittenDictionary[k]))
    => m_MetaDataDictionary = WrittenDictionary

\* a dictionary of two supported entries has been written and restored
C15_Witness ==
  /\ MetaReadBack
  /\ \A k \in DOMAIN WrittenDictionary : SupportedEntry(WrittenDictionary[k])
  /\ Cardinality(DOMAIN WrittenDictionary) = 2
  /\ m_MetaDataDictionary = WrittenDictionary

\* Read or Write has just built the hyperslab of the requested region
Selected == lastCall \in {"Read", "Write"} /\ selection # NoSelection

\* the axes of the requested region that the hyperslab takes
RegionAxes ==
  {j \in 1..Len(m_IORegion.size) : j <= m_NumberOfDimensions}

\* the position in storage order of logical axis j
StoragePosition(j) == m_NumberOfDimensions - j + 1

\* C16: the hyperslab SetupStreaming builds has the rank of the image plus
\* one exactly when there is more than one component; its sizes in storage
\* order are the requested region's sizes reversed, followed for several
\* components by the component count as the last axis, at offset 0; the
\* transfer space has the same shape.
C16_HyperslabShape ==
  Selected
    => /\ selection.rank =
            m_NumberOfDimensions + (IF m_NumberOfComponents > 1 THEN 1 ELSE 0)
       /\ m_NumberOfComponents > 1
            => /\ selection.size[selection.rank] = m_NumberOfComponents
               /\ selection.offset[selection.rank] = 0
       /\ ~m_UseDataSetSize
            => \A j \in RegionAxes :
                 selection.size[StoragePosition(j)] = m_IORegion.size[j]
       /\ selection.slabSpace = selection.size

\* the region of 10 x 20 x 30 of a three-component image has been selected
C16_Witness ==
  /\ Selected
  /\ m_NumberOfComponents = 3
  /\ m_IORegion = LargestRegion(<<10, 20, 30>>)
  /\ selection.offset = <<0, 0, 0, 0>>
  /\ selection.size = <<30, 20, 10, 3>>
  /\ selection.slabSpace = <<30, 20, 10, 3>>

\* C17: for every logical axis, and for each of offset, size and stride on
\* its own, SetupStreaming takes the override's entry when that override is
\* enabled, and otherwise the region's index, the region's size and a
\* stride of 1; enabling one override does not change the other two.
C17_OverridesIndependent ==
  Selected
    => \A j \in RegionAxes :
         LET p == StoragePosition(j)
         IN /\ selection.offset[p] =
                 IF m_UseDataSetOffset
                   THEN IF j \in DOMAIN m_DataSetOffset
                          THEN m_DataSetOffset[j] ELSE selection.offset[p]
                   ELSE m_IORegion.index[j]
            /\ selection.size[p] =
                 IF m_UseDataSetSize
                   THEN IF j \in DOMAIN m_DataSetSize
                          THEN m_DataSetSize[j] ELSE selection.size[p]
                   ELSE m_IORegion.size[j]
            /\ selection.stride[p] =
                 IF m_UseDataSetStride
                   THEN IF j \in DOMAIN m_DataSetStride
                          THEN m_DataSetStride[j] ELSE selection.stride[p]
                   ELSE 1

\* a region has been selected with the offset and stride overrides enabled
\* and the size override disabled
C17_Witness ==
  /\ Selected
  /\ m_UseDataSetOffset /\ Len(m_DataSetOffset) = 3
  /\ ~m_UseDataSetSize
  /\ m_UseDataSetStride /\ Len(m_DataSetStride) = 3
  /\ m_IORegion.index = <<1, 2, 3>>
  /\ selection.rank = 4
  /\ selection.offset = <<0, 0, 0, 0>>
  /\ selection.size = <<6, 5, 4, 3>>
  /\ selection.stride[1] = 2 /\ selection.stride[2] = 2 /\ selection.stride[3] = 2

\* WriteImageInformation has opened the container and called GetGroup
GetsGroup ==
  /\ lastCall' = "WriteImageInformation"
  /\ h5calls' \cap {"createFile", "openFile"} # {}

\* the groups of the container GetGroup finds: none in a file just created
GroupsFound == IF "createFile" \in h5calls' THEN {} ELSE groups

ReadsOnReusedObject ==
  /\ lastCall' = "ReadImageInformation"
  /\ lastResult' = "ok"
  /\ m_MetaDataDictionary # <<>>

\* C19: after ReadImageInformation has returned normally on a reused object,
\* the dictionary holds exactly the entries restored from the metadata group
\* of the current dataset when use-metadata is on, and nothing when it is
\* off; no entry the object held before survives.
C19_DictionaryCleared ==
  [][ReadsOnReusedObject
       => m_MetaDataDictionary' =
            IF m_UseMetaData
              THEN ReadImageMetaData(metaGroups[m_Path], dataModel)
              ELSE <<>>]_vars

\* the object that wrote a dictionary has read with use-metadata off and
\* holds no entry
C19_Witness ==
  /\ lastCall = "ReadImageInformation"
  /\ lastResult = "ok"
  /\ m_ImageInformationWritten
  /\ writtenInfo[GetDataSetPath].dict # <<>>
  /\ ~m_UseMetaData
  /\ m_MetaDataDictionary = <<>>

\* the dataset declares its dimensions and has no axis beyond them
DeclaresScalarImage(ds) ==
  /\ "Dimension" \in DOMAIN ds.attrs
  /\ Len(ds.dims) = DeclaredDimensions(ds)

\* C20: when the Dimension attribute is present and the storage rank equals
\* its length, the component count after ReadImageInformation is one,
\* whatever count the object held before.
C20_ScalarComponentCount ==
  (ReadOk /\ DeclaresScalarImage(ReadDataSet)) => m_NumberOfComponents = 1

\* a dataset that declares a scalar image has been read and the object
\* holds one component
C20_Witness ==
  /\ ReadOk
  /\ DeclaresScalarImage(ReadDataSet)
  /\ m_NumberOfComponents = 1

\* ReadImageInformation returns normally from the dataset at the address
ReadsOk ==
  /\ lastCall' = "ReadImageInformation"
  /\ lastResult' = "ok"
  /\ GetDataSetPath \in DOMAIN datasets

\* the field after the read: the stored value when the attribute is there,
\* else the value the object is left with
FieldRead(name, after, stored, left) ==
  after = IF name \in DOMAIN ReadDataSet.attrs THEN stored ELSE left

MetaWritten ==
  /\ lastCall = "WriteImageInformation"
  /\ lastResult = "ok"
  /\ GetDataSetPath \in DOMAIN writtenInfo
  /\ m_Path \in DOMAIN metaGroups

\* C22: WriteImageMetaData stores one object for every entry whose type
\* has a writer and none for any other entry; an entry without a writer
\* raises no error and does not keep the other entries from being written.
C22_OneObjectPerSupportedEntry ==
  MetaWritten
    => LET stored == metaGroups[m_Path]
       IN /\ DOMAIN stored =
               {k \in DOMAIN WrittenDictionary : SupportedEntry(WrittenDictionary[k])}
          /\ \A k \in DOMAIN stored :
               stored[k].shape =
                 <<IF WrittenDictionary[k].array
                     THEN Len(WrittenDictionary[k].value) ELSE 1>>

\* a dictionary of an entry without a writer and an array entry has been
\* written: the call returned normally and the array alone is stored
C22_Witness ==
  /\ MetaWritten
  /\ DOMAIN WrittenDictionary = {"alpha", "beta"}
  /\ ~SupportedEntry(WrittenDictionary["alpha"])
  /\ WrittenDictionary["beta"].array
  /\ DOMAIN metaGroups[m_Path] = {"beta"}

\* the tag of each disambiguated source type
TagOf(type) ==
  CASE type = "bool" -> "isBool"
    [] type = "long" -> "isLong"
    [] type = "unsigned long" -> "isUnsignedLong"
    [] type = "long long" -> "isLLong"
    [] type = "unsigned long long" -> "isULLong"

\* C23: every stored metadata object carries at most one of the five tags,
\* and carries the tag of a type exactly when it was written from a scalar
\* of that type; the tags are those attached at creation in every later
\* state.
C23_OneTagFromSourceType ==
  \A addr \in DOMAIN writtenInfo :
    addr[1] \in DOMAIN metaGroups
      => \A k \in DOMAIN metaGroups[addr[1]] :
           LET e == writtenInfo[addr].dict[k]
               obj == metaGroups[addr[1]][k]
           IN /\ Cardinality(obj.tags) <= 1
              /\ obj.tags = IF ~e.array /\ e.type \in TaggedTypes
                              THEN {TagOf(e.type)} ELSE {}

\* an object written from an unsigned long still carries isUnsignedLong
\* alone after the dictionary was read back
C23_Witness ==
  /\ MetaReadBack
  /\ m_Path \in DOMAIN metaGroups
  /\ "key" \in DOMAIN metaGroups[m_Path]
  /\ WrittenDictionary["key"].type = "unsigned long"
  /\ metaGroups[m_Path]["key"].tags = {"isUnsignedLong"}

\* the file exists, the path exists in it and the dataset can be opened
DataSetOpens ==
  /\ fileKind # "absent"
  /\ CanOpen(fileKind)
  /\ GetPathExists(m_Path, groups)
  /\ GetDataSetPath \in DOMAIN datasets

\* C24: DataSetExists never raises and changes neither the container nor
\* the write-once latch; it returns true exactly when the file exists, the
\* path exists in it and the dataset can be opened; on every return the
\* object holds no open container handle.
C24_DataSetExistsProbe ==
  [][lastCall' = "DataSetExists"
       => /\ lastResult' \in {"true", "false"}
          /\ lastResult' = "true" <=> DataSetOpens
          /\ UNCHANGED <<diskVars, m_ImageInformationWritten>>
          /\ m_H5File' = "null"
          /\ openFiles' = 0]_vars

\* the object that wrote the dataset has probed for it: the answer is true
\* and the handle the write left open is closed
C24_Witness ==
  /\ lastCall = "DataSetExists"
  /\ lastResult = "true"
  /\ m_ImageInformationWritten
  /\ m_H5File = "null"
  /\ openFiles = 0

\* C25: whenever Write reaches its dataset access the object holds an open
\* container handle, opened in read/write mode, also when the write-once
\* latch was set by an earlier WriteImageInformation and DataSetExists or
\* ReadImageInformation was called since.
C25_HandleOpenAtAccess ==
  lastCall = "Write"
    => /\ lastResult # NullHandle
       /\ (selection # NoSelection /\ StrideValid(selection)
             /\ lastResult # NullHandle)
            => m_H5File = "rdwr"

\* Write has written the data through the read/write handle
C25_Witness ==
  /\ lastCall = "Write"
  /\ lastResult = "ok"
  /\ "writeData" \in h5calls
  /\ m_H5File = "rdwr"

\* Write is called by an object that has written its image information and
\* is now configured with an address where no dataset is
WritesToNewTarget ==
  /\ lastCall' = "Write"
  /\ m_ImageInformationWritten
  /\ m_H5File = "rdwr"
  /\ m_ComponentType \in SupportedComponents
  /\ GetDataSetPath \notin DOMAIN datasets

\* C26: the write-once latch follows the write target: when the path or the
\* dataset name has been changed after a successful Write, the next Write
\* creates the dataset with its geometry attributes at the new address
\* before it writes the data there.
C26_LatchFollowsTarget ==
  [][WritesToNewTarget
       => /\ GetDataSetPath \in DOMAIN datasets'
          /\ "createDataSet" \in h5calls']_vars

\* Write has been called after the address was changed, and no dataset is
\* at the new address
C26_Witness ==
  /\ lastCall = "Write"
  /\ m_ImageInformationWritten
  /\ <<RootPath, "data">> \in DOMAIN datasets
  /\ GetDataSetPath \notin DOMAIN datasets

\* ReadImageInformation returns normally right after it has returned
\* normally, with nothing called in between
ReadsTwice ==
  /\ lastCall = "ReadImageInformation" /\ lastResult = "ok"
  /\ lastCall' = "ReadImageInformation" /\ lastResult' = "ok"

\* C27: with the file and the configuration unchanged, a second
\* ReadImageInformation leaves the dimensionality, sizes, spacing, origin,
\* direction and component count of the first, with any stride override and
\* also when the dataset has no Spacing attribute.
C27_ReadIdempotent ==
  [][ReadsTwice
       => UNCHANGED <<m_NumberOfDimensions, m_Dimensions, m_Spacing, m_Origin,
                      m_Direction, m_NumberOfComponents>>]_vars

\* a dataset without a Spacing attribute has been read twice under the
\* stride override 2, 3
C27_Witness ==
  /\ ReadOk
  /\ "Spacing" \notin DOMAIN ReadDataSet.attrs
  /\ m_UseDataSetStride /\ m_DataSetStride = <<2, 3>>
  /\ m_Spacing = <<4, 9>>

\* WriteImageInformation is called with overwrite on by an object that has
\* not written yet, and the dataset name is already in the target group
OverwritesDataSet ==
  /\ lastCall' = "WriteImageInformation"
  /\ ~m_ImageInformationWritten
  /\ m_Overwrite
  /\ CanOpen(fileKind)
  /\ m_ComponentType \in SupportedComponents
  /\ GetDataSetPath \in DOMAIN datasets

\* C28: with the overwrite flag on, WriteImageInformation on a group that
\* already holds the dataset name returns normally: the dataset there is
\* the new one with its four geometry attributes and the write-once latch
\* is set.
C28_OverwriteReplaces ==
  [][OverwritesDataSet
       => /\ lastResult' = "ok"
          /\ m_ImageInformationWritten'
          /\ datasets'[GetDataSetPath] = NewDataSet(Image, dataModel)]_vars

\* WriteImageInformation with overwrite on has met the dataset name in the
\* group
C28_Witness ==
  /\ lastCall = "WriteImageInformation"
  /\ m_Overwrite
  /\ ~m_ImageInformationWritten
  /\ "openFile" \in h5calls
  /\ GetDataSetPath \in DOMAIN datasets
  /\ lastResult = "H5::GroupIException"

\* the storage positions SetupStreaming's loop over the region does not
\* reach: the component axis and the axes beyond the region
OutsideRegion ==
  {p \in 1..selection.rank :
     \/ m_NumberOfComponents > 1 /\ p = selection.rank
     \/ m_NumberOfDimensions - p >= Len(m_IORegion.size)}

\* C29: the offset, size and stride SetupStreaming hands to the hyperslab
\* selection are assigned on every storage axis, the stride at least 1,
\* the component axis and the axes padded beyond the region included
\* (stated with no stride override, where every stride the loop assigns
\* is 1).
C29_StrideAssigned ==
  (Selected /\ ~m_UseDataSetStride)
    => \A p \in 1..selection.rank :
          /\ selection.stride[p] >= 1
          /\ selection.size[p] >= 0
          /\ selection.offset[p] >= 0

\* SetupStreaming has built a hyperslab with an axis outside the region
C29_Witness ==
  /\ Selected
  /\ ~m_UseDataSetStride
  /\ OutsideRegion # {}
  /\ \E p \in OutsideRegion : selection.stride[p] = 0

\* ReadImageInformation has recomputed the sizes from the stride
Recomputed == ReadOk /\ m_UseDataSetStride /\ ~m_UseDataSetSize

\* C30: the size recomputation from the stride never wraps around: on every
\* axis with stride above one, whatever the offset override, the recomputed
\* size is at most the size the dataset declares.
C30_RecomputationShrinks ==
  Recomputed
    => \A i \in 1..m_NumberOfDimensions :
          m_DataSetStride[i] > 1
            => m_Dimensions[i] <= DeclaredSizes(ReadDataSet)[i]

\* a recomputation with an offset override that the quotient covers
C30_Witness ==
  /\ Recomputed
  /\ m_UseDataSetOffset
  /\ \E i \in 1..m_NumberOfDimensions :
        /\ m_DataSetStride[i] > 1
        /\ m_DataSetOffset[i] > 0
        /\ m_DataSetOffset[i] <= DeclaredSizes(ReadDataSet)[i] \div m_DataSetStride[i]
        /\ m_Dimensions[i] =
              (DeclaredSizes(ReadDataSet)[i] \div m_DataSetStride[i]) - m_DataSetOffset[i]

====
